---- MODULE Spec2Model ----
(***************************************************************************)
(* A model of the MRGCN node-classification pipeline:                      *)
(*   src/mrgcn.py                    run, categorical_crossentropy,        *)
(*                                   accuracy, evaluate_preds              *)
(*   src/tasks/node_classification.py build_dataset, build_model           *)
(*                                                                         *)
(* Four specifications share the variables below:                          *)
(*   Spec        the control flow of run()                                 *)
(*   SpecDataset build_dataset as a function of the graph and the targets  *)
(*   SpecModel   build_model, one layer at a time                          *)
(*   SpecEval    evaluate_preds as a function of its three arguments       *)
(***************************************************************************)
EXTENDS Integers, Sequences, FiniteSets

VARIABLES
    pc,             \* position in the function being executed
    args_input,     \* args.input: None, or the path of a prepared tarball
    atoms,          \* knowledge_graph.atoms(), in enumeration order
    target_triples, \* the (node, relation, class) statements
    layers,         \* config['model']['layers']
    nepoch,         \* config['model']['epoch']
    data,           \* (X, Y, X_node_idx) once built or read, else None
    model,          \* the stack build_model has constructed so far, else None
    dataset,        \* the splits create_splits returned, else None
    layer_i,        \* the loop variable of build_model
    epoch,          \* the loop variable of run()
    nfit,           \* number of optimizer steps applied to the parameters
    Y_hat,          \* run()'s Y_hat
    log,            \* the observable events of run(), in order
    error,          \* the exception that ended the function, else None
    preds,          \* evaluate_preds: argument preds
    labels,         \* evaluate_preds: argument labels
    indices,        \* evaluate_preds: argument indices
    result          \* evaluate_preds: the value returned, else None

vars == <<pc, args_input, atoms, target_triples, layers, nepoch, data, model,
          dataset, layer_i, epoch, nfit, Y_hat, log, error, preds, labels, indices, result>>

inputs == <<args_input, atoms, target_triples, layers, nepoch>>
evalVars == <<preds, labels, indices, result>>

\* Python's None, for the variables that otherwise hold a record
None == [status |-> "None"]
\* no exception raised
NoError == "None"
\* numpy's nan
NaN == [nan |-> TRUE]

----------------------------------------------------------------------------
(* Bounds of the model *)

\* node labels are 1..MaxLabel
MaxLabel == 3
\* class labels are 1..MaxClass
MaxClass == 2
\* longest list of target statements handed to build_dataset
MaxTargets == 2
\* longest list of target statements in a whole run
RunMaxTargets == 1
\* largest configured epoch count
MaxEpoch == 3
\* longest layer configuration list
MaxLayers == 3
\* largest configured hidden_nodes
MaxHidden == 2
\* largest configured l2norm (in units of the smallest strength)
MaxL2 == 1
\* rows of the prediction matrix handed to evaluate_preds
EvalRows == 2
\* columns of the prediction matrix handed to evaluate_preds
EvalCols == 2
\* predictions are 2^-k for k in 0..PBits
PBits == 1

----------------------------------------------------------------------------
(* Generic helpers *)

Range(s) == {s[k] : k \in DOMAIN s}

NoDup(s) == \A j, k \in DOMAIN s : j # k => s[j] # s[k]

SeqsUpTo(S, n) == UNION {[1..k -> S] : k \in 0..n}

Perms(S) == {s \in [1..Cardinality(S) -> S] : NoDup(s)}

\* position of x in the duplicate-free sequence s, counted from 0
IndexOf(s, x) == (CHOOSE k \in DOMAIN s : s[k] = x) - 1

RECURSIVE SumSeq(_)
SumSeq(s) == IF Len(s) = 0 THEN 0 ELSE s[1] + SumSeq(Tail(s))

RECURSIVE Concat(_)
Concat(ss) == IF Len(ss) = 0 THEN <<>> ELSE ss[1] \o Concat(Tail(ss))

IsPrefix(s, t) == Len(s) <= Len(t) /\ \A k \in 1..Len(s) : s[k] = t[k]

----------------------------------------------------------------------------
(* build_dataset, src/tasks/node_classification.py *)

Labels == 1..MaxLabel
Classes == 1..MaxClass
\* the relation of a target statement; build_dataset ignores it
TargetRelation == "target"

Triples == Labels \X {TargetRelation} \X Classes

\* the graphs: every label, or every label but one, in any enumeration order
AtomLists == UNION {Perms(S) : S \in {T \in SUBSET Labels : Cardinality(T) >= MaxLabel - 1}}

\* line 35: nodes_map = {label:i for i,label in enumerate(knowledge_graph.atoms())}
nodes_map(as) == [x \in Range(as) |-> IndexOf(as, x)]

\* line 31: classes = {t[2] for t in target_triples}
classes_of(ts) == {ts[k][3] : k \in DOMAIN ts}

\* line 36: classes_map = {label:i for i,label in enumerate(classes)}; the
\* enumeration order of a Python set is not fixed: order is any enumeration
classes_map(order) == [y \in Range(order) |-> IndexOf(order, y)]

\* a build_dataset that drops the statements whose node is unknown
build_dataset_lenient(as, ts, order) ==
    LET nm == nodes_map(as)
        cm == classes_map(order)
        kept == SelectSeq(ts, LAMBDA t : t[1] \in DOMAIN nm)
        tl == [k \in DOMAIN kept |-> <<nm[kept[k][1]], cm[kept[k][3]]>>]
    IN  [status |-> "ok",
         X |-> [shape |-> <<Cardinality(DOMAIN nm), Cardinality(DOMAIN nm)>>],
         Y |-> [r \in 0..(Cardinality(DOMAIN nm) - 1) |->
                 [c \in 0..(Cardinality(DOMAIN cm) - 1) |->
                   Cardinality({k \in DOMAIN tl : tl[k] = <<r, c>>})]],
         X_node_idx |-> [k \in DOMAIN tl |-> tl[k][1]]]

\* lines 28-48. The result is the returned triple, or the exception raised.
build_dataset(as, ts, order) ==
    LET nm == nodes_map(as)
        cm == classes_map(order)
        N == Cardinality(DOMAIN nm)
        C == Cardinality(DOMAIN cm)
    IN  IF \E k \in DOMAIN ts : ts[k][1] \notin DOMAIN nm
        THEN \* line 39: nodes_map[x] of an unknown node
             [status |-> "KeyError"]
        ELSE IF Len(ts) = 0
        THEN \* line 40: zip(*[]) is empty, the unpacking into two names fails
             [status |-> "ValueError"]
        ELSE LET target_labels == [k \in DOMAIN ts |-> <<nm[ts[k][1]], cm[ts[k][3]]>>]
             IN  [status |-> "ok",
                  \* line 46: X = sp.csr_matrix((N, N))
                  X |-> [shape |-> <<N, N>>],
                  \* lines 41-43: csr_matrix((ones, (rows, cols))) sums the
                  \* entries that share a position
                  Y |-> [r \in 0..(N - 1) |-> [c \in 0..(C - 1) |->
                          Cardinality({k \in DOMAIN target_labels :
                                         target_labels[k] = <<r, c>>})]],
                  \* line 40
                  X_node_idx |-> [k \in DOMAIN target_labels |-> target_labels[k][1]]]

\* the number of columns of a label matrix with at least one row
NumCols(Y) == Cardinality(DOMAIN Y[0])
NumRows(Y) == Cardinality(DOMAIN Y)

----------------------------------------------------------------------------
(* build_model, src/tasks/node_classification.py *)

\* the per-layer configuration; the claims are about hidden_nodes and l2norm,
\* the other keys take one value each
LayerConfig == [hidden_nodes : 1..MaxHidden,
                num_bases    : {-1},
                featureless  : {FALSE},
                activation   : {"relu"},
                dropout      : {0},
                l2norm       : 0..MaxL2]

LayerLists == SeqsUpTo(LayerConfig, MaxLayers)

\* line 55: support = len(A)
support == "len(A)"

\* keras.regularizers.l2(strength)
l2(strength) == [l2 |-> strength]

\* lines 60-65: the input layer
input_layer(ls) ==
    [layer |-> "GraphConvolution", output_dim |-> ls[1].hidden_nodes,
     support |-> support, num_bases |-> ls[1].num_bases,
     featureless |-> ls[1].featureless, activation |-> ls[1].activation,
     W_regularizer |-> l2(ls[1].l2norm)]

\* lines 70-75: intermediate layer i (counted from 0, as in the code)
intermediate_layer(ls, i) ==
    [layer |-> "GraphConvolution", output_dim |-> ls[i + 1].hidden_nodes,
     support |-> support, num_bases |-> ls[i + 1].num_bases,
     featureless |-> ls[i + 1].featureless, activation |-> ls[i + 1].activation,
     W_regularizer |-> l2(ls[i + 1].l2norm)]

\* an output layer as wide as the last configuration entry says
output_layer_configured(ls, Y) ==
    [layer |-> "GraphConvolution", output_dim |-> ls[Len(ls)].hidden_nodes,
     support |-> support, num_bases |-> ls[Len(ls)].num_bases,
     activation |-> ls[Len(ls)].activation]

\* lines 79-81: the output layer; featureless and W_regularizer are not passed,
\* so the record has no such fields
output_layer(ls, Y) ==
    [layer |-> "GraphConvolution", output_dim |-> NumCols(Y),
     support |-> support, num_bases |-> ls[Len(ls)].num_bases,
     activation |-> ls[Len(ls)].activation]

\* lines 66, 76
Dropout(rate) == [layer |-> "Dropout", rate |-> rate]

\* line 69: enumerate(layers[1:-1], 1) yields i = 1 .. len(layers) - 2
IntermediateIndices(ls) == 1..(Len(ls) - 2)

\* lines 50-90 in one step: the layers of the compiled model, in order, or the
\* exception raised
build_model(X, Y, ls) ==
    IF ~(Len(ls) >= 2)
    THEN [status |-> "AssertionError"]
    ELSE [status |-> "ok",
          input_shape |-> X.shape[2],
          stack |-> <<input_layer(ls), Dropout(ls[1].dropout)>>
                    \o Concat([i \in IntermediateIndices(ls) |->
                                 <<intermediate_layer(ls, i), Dropout(ls[i + 1].dropout)>>])
                    \o <<output_layer(ls, Y)>>]

\* the graph-convolution layers of a stack, in order
GraphConvolutions(stack) == SelectSeq(stack, LAMBDA l : l.layer = "GraphConvolution")

----------------------------------------------------------------------------
(* categorical_crossentropy, accuracy, evaluate_preds, src/mrgcn.py *)

Rows == 0..(EvalRows - 1)
Cols == 0..(EvalCols - 1)

RECURSIVE Pow2(_)
Pow2(k) == IF k = 0 THEN 1 ELSE 2 * Pow2(k - 1)

\* a prediction entry q stands for the probability q / 2^PBits
PredValues == {Pow2(k) : k \in 0..PBits}

RECURSIVE Log2(_)
Log2(q) == IF q <= 1 THEN 0 ELSE 1 + Log2(q \div 2)

\* -np.log(p) of the probability q / 2^PBits, in units of ln 2
NegLog(q) == PBits - Log2(q)

\* np.mean of a sequence of integers: nan for the empty sequence (0/0), else
\* the fraction sum / length
mean(s) == IF Len(s) = 0 THEN NaN ELSE [num |-> SumSeq(s), den |-> Len(s)]

\* m[idx_split]: the rows of m named by the index array, in its order
take(m, idx) == [k \in 1..Len(idx) |-> m[idx[k]]]

\* a.ravel() of a sequence of rows: the entries in row-major order
ravel(rows) ==
    Concat([k \in 1..Len(rows) |->
              [j \in 1..Cardinality(DOMAIN rows[k]) |-> rows[k][j - 1]]])

\* np.extract(condition, arr): the entries of arr.ravel() where
\* condition.ravel() is nonzero
extract(condition, arr) ==
    LET c == ravel(condition)
        a == ravel(arr)
        Keep(n) == IF c[n] # 0 THEN <<a[n]>> ELSE <<>>
    IN  Concat([n \in 1..Len(c) |-> Keep(n)])

\* a cross-entropy that divides the sum of the terms by the number of rows
categorical_crossentropy_per_row(p, l) ==
    LET e == extract(l, p)
    IN  IF Len(p) = 0 THEN NaN
        ELSE [num |-> SumSeq([n \in 1..Len(e) |-> NegLog(e[n])]), den |-> Len(p)]

\* line 85: np.mean(-np.log(np.extract(labels, preds)))
categorical_crossentropy(p, l) ==
    LET e == extract(l, p)
    IN  mean([n \in 1..Len(e) |-> NegLog(e[n])])

\* np.argmax along a row: a left-to-right scan that keeps the first maximum
RECURSIVE argmax_from(_, _, _)
argmax_from(row, c, best) ==
    IF c \notin DOMAIN row THEN best
    ELSE argmax_from(row, c + 1, IF row[c] > row[best] THEN c ELSE best)

argmax(row) == argmax_from(row, 1, 0)

\* line 88: np.mean(np.equal(np.argmax(labels, 1), np.argmax(preds, 1)))
accuracy(p, l) ==
    mean([k \in 1..Len(p) |-> IF argmax(l[k]) = argmax(p[k]) THEN 1 ELSE 0])

\* preds[idx_split] needs a subscriptable preds; None is not
subscriptable(p) == p # None

\* zip(labels, indices) stops at the shorter list
zip_len(ls, is) == IF Len(ls) <= Len(is) THEN Len(ls) ELSE Len(is)

\* an evaluate_preds that scores the first rows instead of the indexed ones
evaluate_preds_unsliced(p, ls, is) ==
    IF zip_len(ls, is) > 0 /\ ~subscriptable(p)
    THEN [status |-> "TypeError"]
    ELSE [status |-> "ok",
          split_loss |-> [k \in 1..zip_len(ls, is) |->
              categorical_crossentropy([j \in 1..Len(is[k]) |-> p[j - 1]],
                                       [j \in 1..Len(is[k]) |-> ls[k][j - 1]])],
          split_acc |-> [k \in 1..zip_len(ls, is) |->
              accuracy([j \in 1..Len(is[k]) |-> p[j - 1]],
                       [j \in 1..Len(is[k]) |-> ls[k][j - 1]])]]

\* lines 91-100
evaluate_preds(p, ls, is) ==
    IF zip_len(ls, is) > 0 /\ ~subscriptable(p)
    THEN \* line 97: None[idx_split]
         [status |-> "TypeError"]
    ELSE [status |-> "ok",
          split_loss |-> [k \in 1..zip_len(ls, is) |->
              categorical_crossentropy(take(p, is[k]), take(ls[k], is[k]))],
          split_acc |-> [k \in 1..zip_len(ls, is) |->
              accuracy(take(p, is[k]), take(ls[k], is[k]))]]

----------------------------------------------------------------------------
(* run, src/mrgcn.py: the specification Spec *)

NoInput == "None"
ReadableTar == "readable.tar"
UnreadableTar == "unreadable.tar"

\* the graphs of a run enumerate their atoms in ascending order
RunAtomLists == {as \in AtomLists : \A j, k \in DOMAIN as : j < k => as[j] < as[k]}

RunTargetLists == SeqsUpTo(Triples, RunMaxTargets)

\* the configurations of a run differ in the number of layers only
DefaultLayer == CHOOSE cfg \in LayerConfig : cfg.hidden_nodes = 1 /\ cfg.l2norm = 0

RunLayerLists == {[k \in 1..n |-> DefaultLayer] : n \in 0..MaxLayers}

\* the class enumerations of a target list
ClassOrders(ts) == Perms(classes_of(ts))

\* a prepared tarball holds a dataset built earlier
TarContents ==
    {d \in {build_dataset(as, ts, order) :
              as \in RunAtomLists, ts \in RunTargetLists, order \in Perms(Classes)} :
       d.status = "ok"}

UnusedEval == /\ preds = None
              /\ labels = None
              /\ indices = None
              /\ result = None

Init ==
    /\ pc = "start"
    /\ args_input \in {NoInput, ReadableTar, UnreadableTar}
    /\ IF args_input = NoInput
       THEN atoms \in RunAtomLists /\ target_triples \in RunTargetLists
       ELSE atoms = <<>> /\ target_triples = <<>>
    /\ layers \in RunLayerLists
    /\ nepoch \in 0..MaxEpoch
    /\ data = None
    /\ model = None
    /\ dataset = None
    /\ layer_i = 0
    /\ epoch = 0
    /\ nfit = 0
    /\ Y_hat = None
    /\ log = <<>>
    /\ error = NoError
    /\ UnusedEval

Raise(e) == pc' = "error" /\ error' = e

\* lines 19-24: no tarball, the prerequisites are built from the graph
BuildPrerequisites ==
    /\ pc = "start"
    /\ args_input = NoInput
    /\ \E order \in ClassOrders(target_triples) :
         LET d == build_dataset(atoms, target_triples, order)
         IN  IF d.status = "ok"
             THEN /\ data' = d
                  /\ pc' = "build_model"
                  /\ error' = error
             ELSE /\ data' = data
                  /\ Raise(d.status)
    /\ UNCHANGED <<inputs, model, dataset, epoch, nfit, Y_hat, log, layer_i, evalVars>>

\* lines 25-28: a prepared tarball is read
ReadTarball ==
    /\ pc = "start"
    /\ args_input # NoInput
    /\ IF args_input = ReadableTar
       THEN /\ \E d \in TarContents : data' = d
            /\ pc' = "build_model"
            /\ error' = error
       ELSE \* line 26: assert is_readable(args.input)
            /\ data' = data
            /\ Raise("AssertionError")
    /\ UNCHANGED <<inputs, model, dataset, epoch, nfit, Y_hat, log, layer_i, evalVars>>

\* line 31
BuildModel ==
    /\ pc = "build_model"
    /\ LET m == build_model(data.X, data.Y, layers)
       IN  IF m.status = "ok"
           THEN /\ model' = m
                /\ pc' = "create_splits"
                /\ error' = error
           ELSE /\ model' = model
                /\ Raise(m.status)
    /\ UNCHANGED <<inputs, data, dataset, epoch, nfit, Y_hat, log, layer_i, evalVars>>

\* lines 34-38: create_splits and sample_mask
CreateSplits ==
    /\ pc = "create_splits"
    /\ dataset' = [status |-> "ok", of |-> data.X_node_idx, mask_len |-> NumRows(data.Y)]
    /\ pc' = "begin_training"
    /\ UNCHANGED <<inputs, data, model, epoch, nfit, Y_hat, log, error, layer_i, evalVars>>

\* lines 41-45
BeginTraining ==
    /\ pc = "begin_training"
    /\ Y_hat' = None
    /\ pc' = "for"
    /\ UNCHANGED <<inputs, data, model, dataset, epoch, nfit, log, error, layer_i, evalVars>>

\* line 46: range(1, nepoch+1) yields its next value
NextEpoch ==
    /\ pc = "for"
    /\ epoch + 1 < nepoch + 1
    /\ epoch' = epoch + 1
    /\ pc' = "fit"
    /\ UNCHANGED <<inputs, data, model, dataset, nfit, Y_hat, log, error, layer_i, evalVars>>

\* line 46: range(1, nepoch+1) is exhausted
ExitLoop ==
    /\ pc = "for"
    /\ ~(epoch + 1 < nepoch + 1)
    /\ pc' = "test"
    /\ UNCHANGED <<inputs, data, model, dataset, epoch, nfit, Y_hat, log, error, layer_i, evalVars>>

\* a training iteration that takes two optimizer steps
FitTwice ==
    /\ pc = "fit"
    /\ nfit' = nfit + 2
    /\ log' = log \o << [ev |-> "fit", epoch |-> epoch, batch_size |-> data.X.shape[1],
                         nb_epoch |-> 1, sample_weight |-> "train_mask"],
                        [ev |-> "fit", epoch |-> epoch, batch_size |-> data.X.shape[1],
                         nb_epoch |-> 1, sample_weight |-> "train_mask"] >>
    /\ pc' = "progress"
    /\ UNCHANGED <<inputs, data, model, dataset, epoch, Y_hat, error, layer_i, evalVars>>

\* lines 51-52: model.fit, one full-batch step
Fit ==
    /\ pc = "fit"
    /\ nfit' = nfit + 1
    /\ log' = Append(log, [ev |-> "fit", epoch |-> epoch, batch_size |-> data.X.shape[1],
                           nb_epoch |-> 1, sample_weight |-> "train_mask"])
    /\ pc' = "progress"
    /\ UNCHANGED <<inputs, data, model, dataset, epoch, Y_hat, error, layer_i, evalVars>>

\* lines 55-57 and 73-75: on the reporting cadence predict on the full
\* dataset, else print the elapsed time only
Predict ==
    /\ pc = "progress"
    /\ IF epoch % 1 = 0
       THEN /\ Y_hat' = [status |-> "ok", params |-> nfit, epoch |-> epoch]
            /\ log' = Append(log, [ev |-> "predict", epoch |-> epoch,
                                   batch_size |-> data.X.shape[1], params |-> nfit])
            /\ pc' = "evaluate"
       ELSE /\ Y_hat' = Y_hat
            /\ log' = Append(log, [ev |-> "print_time", epoch |-> epoch])
            /\ pc' = "for"
    /\ UNCHANGED <<inputs, data, model, dataset, epoch, nfit, error, layer_i, evalVars>>

\* lines 60-64: evaluate_preds on the (train, val) pair
EvaluateTrainVal ==
    /\ pc = "evaluate"
    /\ IF subscriptable(Y_hat)
       THEN /\ log' = Append(log, [ev |-> "evaluate", epoch |-> epoch,
                                   splits |-> <<"train", "val">>, preds |-> Y_hat])
            /\ pc' = "print"
            /\ error' = error
       ELSE /\ log' = log
            /\ Raise("TypeError")
    /\ UNCHANGED <<inputs, data, model, dataset, epoch, nfit, Y_hat, layer_i, evalVars>>

\* lines 66-71: the progress line
PrintProgress ==
    /\ pc = "print"
    /\ log' = Append(log, [ev |-> "print", epoch |-> epoch])
    /\ pc' = "for"
    /\ UNCHANGED <<inputs, data, model, dataset, epoch, nfit, Y_hat, error, layer_i, evalVars>>

\* a test step that first predicts again
TestEvaluateFresh ==
    /\ pc = "test"
    /\ Y_hat' = [status |-> "ok", params |-> nfit, epoch |-> epoch]
    /\ log' = log \o << [ev |-> "predict", epoch |-> epoch,
                         batch_size |-> data.X.shape[1], params |-> nfit],
                        [ev |-> "evaluate", epoch |-> epoch, splits |-> <<"test">>,
                         preds |-> [status |-> "ok", params |-> nfit, epoch |-> epoch]] >>
    /\ pc' = "print_test"
    /\ UNCHANGED <<inputs, data, model, dataset, epoch, nfit, error, layer_i, evalVars>>

\* lines 78-79: evaluate_preds on the test subset, with the Y_hat at hand
TestEvaluate ==
    /\ pc = "test"
    /\ IF subscriptable(Y_hat)
       THEN /\ log' = Append(log, [ev |-> "evaluate", epoch |-> epoch,
                                   splits |-> <<"test">>, preds |-> Y_hat])
            /\ pc' = "print_test"
            /\ error' = error
       ELSE /\ log' = log
            /\ Raise("TypeError")
    /\ UNCHANGED <<inputs, data, model, dataset, epoch, nfit, Y_hat, layer_i, evalVars>>

\* lines 80-82: the test result line
PrintTest ==
    /\ pc = "print_test"
    /\ log' = Append(log, [ev |-> "print_test"])
    /\ pc' = "done"
    /\ UNCHANGED <<inputs, data, model, dataset, epoch, nfit, Y_hat, error, layer_i, evalVars>>

Next ==
    \/ BuildPrerequisites
    \/ ReadTarball
    \/ BuildModel
    \/ CreateSplits
    \/ BeginTraining
    \/ NextEpoch
    \/ ExitLoop
    \/ Fit
    \/ Predict
    \/ EvaluateTrainVal
    \/ PrintProgress
    \/ TestEvaluate
    \/ PrintTest

Spec == Init /\ [][Next]_vars

----------------------------------------------------------------------------
(* Claims about run(), checked under Spec *)

\* an event without the values it carries: what was called, in which epoch,
\* with which arguments
Shape(e) ==
    CASE e.ev = "fit"      -> e
      [] e.ev = "predict"  -> [ev |-> e.ev, epoch |-> e.epoch, batch_size |-> e.batch_size]
      [] e.ev = "evaluate" -> [ev |-> e.ev, epoch |-> e.epoch, splits |-> e.splits]
      [] OTHER             -> e

Shapes(l) == [k \in DOMAIN l |-> Shape(l[k])]

\* the events of epoch e on a graph of N nodes
ExpectedEpoch(e, N) ==
    << [ev |-> "fit", epoch |-> e, batch_size |-> N, nb_epoch |-> 1,
        sample_weight |-> "train_mask"],
       [ev |-> "predict", epoch |-> e, batch_size |-> N],
       [ev |-> "evaluate", epoch |-> e, splits |-> <<"train", "val">>],
       [ev |-> "print", epoch |-> e] >>

\* the events of a whole run of n epochs
ExpectedRun(n, N) ==
    Concat([e \in 1..n |-> ExpectedEpoch(e, N)])
    \o << [ev |-> "evaluate", epoch |-> n, splits |-> <<"test">>],
          [ev |-> "print_test"] >>

Count(l, kind) == Len(SelectSeq(l, LAMBDA e : e.ev = kind))

IsTestEvaluate(e) == e.ev = "evaluate" /\ e.splits = <<"test">>

\* C1: with nepoch >= 1 the events of run() are, in this order, for each epoch
\* 1..nepoch one full-batch fit (batch size N, one inner epoch, the train mask
\* as sample weight), one full-graph predict, one evaluation of (train, val)
\* and one progress line, then one evaluation of the test subset and its
\* report; nothing follows, and the optimizer has stepped nepoch times.
C1_TrainingStateMachine ==
    (nepoch >= 1 /\ data # None) =>
        /\ IsPrefix(Shapes(log), ExpectedRun(nepoch, NumRows(data.Y)))
        /\ Count(log, "fit") = nfit
        /\ pc = "done" => /\ Len(log) = Len(ExpectedRun(nepoch, NumRows(data.Y)))
                          /\ nfit = nepoch

C1_Witness == pc = "done" /\ nepoch >= 2 /\ Count(log, "fit") = nepoch

\* C2 as stated: after the last epoch one more predict is made (nepoch + 1 in
\* all), and the test evaluation follows that predict.
C2_ExtraForwardPass ==
    (pc = "done" /\ nepoch >= 1) =>
        /\ Count(log, "predict") = nepoch + 1
        /\ \E k \in 2..Len(log) : IsTestEvaluate(log[k]) /\ log[k - 1].ev = "predict"

\* C2 amended: with nepoch >= 1 no forward pass follows the last epoch's
\* report; the test evaluation is given the Y_hat of the last epoch's predict,
\* which was made after the last fit, and nepoch predicts are made in all.
C2_TestReusesLastPrediction ==
    (pc \in {"print_test", "done"} /\ nepoch >= 1) =>
        /\ Count(log, "predict") = nepoch
        /\ \E k \in 2..Len(log) :
             /\ IsTestEvaluate(log[k])
             /\ log[k - 1] = [ev |-> "print", epoch |-> nepoch]
             /\ \E j \in 1..(k - 1) :
                  /\ log[j].ev = "predict"
                  /\ log[j].epoch = nepoch
                  /\ log[j].params = nfit
                  /\ log[k].preds = [status |-> "ok", params |-> log[j].params,
                                     epoch |-> nepoch]

C2_Witness == pc = "done" /\ nepoch >= 2 /\ Count(log, "predict") = nepoch

\* C7: a target statement about a node the graph does not have ends run() in
\* a KeyError raised by build_dataset: no dataset is returned, no model is
\* built, no splits are made and no fit, predict or evaluation ever happens.
HasUnknownTarget ==
    /\ args_input = NoInput
    /\ \E k \in DOMAIN target_triples : target_triples[k][1] \notin Range(atoms)

C7_UnknownTargetNodeIsFatal ==
    HasUnknownTarget =>
        /\ pc \in {"start", "error"}
        /\ pc = "error" => error = "KeyError"
        /\ data = None
        /\ model = None
        /\ dataset = None
        /\ nfit = 0
        /\ log = <<>>

C7_Witness == HasUnknownTarget /\ pc = "error" /\ error = "KeyError"

\* C10: for every nepoch >= 0, when run() reaches the test evaluation its
\* Y_hat is a prediction (not None) made with the parameters of the last fit,
\* and the evaluation does not raise.
C10_TestPredictionDefined ==
    /\ pc = "test" => (subscriptable(Y_hat) /\ Y_hat.params = nfit)
    /\ error # "TypeError"

----------------------------------------------------------------------------
(* build_dataset on its own: the specification SpecDataset *)

TargetLists == SeqsUpTo(Triples, MaxTargets)

UnusedRun == /\ args_input = NoInput
             /\ nepoch = 0
             /\ dataset = None
             /\ epoch = 0
             /\ nfit = 0
             /\ Y_hat = None
             /\ log = <<>>

InitDataset ==
    /\ pc = "build_dataset"
    /\ atoms \in AtomLists
    /\ target_triples \in TargetLists
    /\ layers = <<>>
    /\ data = None
    /\ model = None
    /\ layer_i = 0
    /\ error = NoError
    /\ UnusedRun
    /\ UnusedEval

\* lines 28-48, whole
BuildDataset ==
    /\ pc = "build_dataset"
    /\ \E order \in ClassOrders(target_triples) :
         LET d == build_dataset(atoms, target_triples, order)
         IN  IF d.status = "ok"
             THEN /\ data' = d
                  /\ pc' = "returned"
                  /\ error' = error
             ELSE /\ data' = data
                  /\ Raise(d.status)
    /\ UNCHANGED <<inputs, model, dataset, epoch, nfit, Y_hat, log, layer_i, evalVars>>

NextDataset == BuildDataset

SpecDataset == InitDataset /\ [][NextDataset]_vars

\* C6: for a non-empty target list whose nodes are all in the graph,
\* build_dataset returns an N x C matrix Y (N graph nodes, C distinct target
\* classes) with Y[row, col] = 1 where some target statement names the
\* (node, class) of (row, col), repeated or not, and 0 everywhere else.
C6_LabelMatrixIsZeroOne ==
    (/\ pc # "build_dataset"
     /\ Len(target_triples) > 0
     /\ \A k \in DOMAIN target_triples : target_triples[k][1] \in Range(atoms)) =>
        /\ pc = "returned"
        /\ \E order \in ClassOrders(target_triples) :
             /\ DOMAIN data.Y = 0..(Len(atoms) - 1)
             /\ \A r \in DOMAIN data.Y :
                  /\ DOMAIN data.Y[r] = 0..(Cardinality(classes_of(target_triples)) - 1)
                  /\ \A c \in DOMAIN data.Y[r] :
                       data.Y[r][c] =
                           IF \E k \in DOMAIN target_triples :
                                /\ nodes_map(atoms)[target_triples[k][1]] = r
                                /\ classes_map(order)[target_triples[k][3]] = c
                           THEN 1 ELSE 0

----------------------------------------------------------------------------
(* build_model one layer at a time: the specification SpecModel *)

\* datasets with 1..MaxClass classes: node k is labelled with class k
ModelDatasets ==
    {build_dataset([k \in 1..MaxLabel |-> k],
                   [k \in 1..C |-> <<k, TargetRelation, k>>],
                   [k \in 1..C |-> k]) :
       C \in {n \in 1..MaxClass : n <= MaxLabel}}

InitModel ==
    /\ pc = "assert"
    /\ atoms = <<>>
    /\ target_triples = <<>>
    /\ layers \in LayerLists
    /\ data \in ModelDatasets
    /\ model = None
    /\ layer_i = 0
    /\ error = NoError
    /\ UnusedRun
    /\ UnusedEval

modelUnchanged == <<inputs, data, dataset, epoch, nfit, Y_hat, log, evalVars>>

\* lines 51-53: assert len(layers) >= 2
AssertLayers ==
    /\ pc = "assert"
    /\ IF Len(layers) >= 2
       THEN pc' = "input_layer" /\ error' = error
       ELSE Raise("AssertionError")
    /\ UNCHANGED <<model, layer_i, modelUnchanged>>

\* lines 55-66: the inputs, the input layer and its dropout
InputLayer ==
    /\ pc = "input_layer"
    /\ model' = [status |-> "building", input_shape |-> data.X.shape[2],
                 stack |-> <<input_layer(layers), Dropout(layers[1].dropout)>>]
    /\ layer_i' = 1
    /\ pc' = "for"
    /\ UNCHANGED <<error, modelUnchanged>>

\* lines 69-76: one pass of the loop over layers[1:-1]
IntermediateLayer ==
    /\ pc = "for"
    /\ layer_i \in IntermediateIndices(layers)
    /\ model' = [model EXCEPT !.stack =
                    @ \o <<intermediate_layer(layers, layer_i),
                           Dropout(layers[layer_i + 1].dropout)>>]
    /\ layer_i' = layer_i + 1
    /\ UNCHANGED <<pc, error, modelUnchanged>>

\* lines 79-81: the loop is over, the output layer
OutputLayer ==
    /\ pc = "for"
    /\ layer_i \notin IntermediateIndices(layers)
    /\ model' = [model EXCEPT !.stack = @ \o <<output_layer(layers, data.Y)>>]
    /\ pc' = "compile"
    /\ UNCHANGED <<layer_i, error, modelUnchanged>>

\* lines 84-90: Model(...), compile, return
Compile ==
    /\ pc = "compile"
    /\ model' = [model EXCEPT !.status = "ok"]
    /\ pc' = "returned"
    /\ UNCHANGED <<layer_i, error, modelUnchanged>>

NextModel ==
    \/ AssertLayers
    \/ InputLayer
    \/ IntermediateLayer
    \/ OutputLayer
    \/ Compile

SpecModel == InitModel /\ [][NextModel]_vars

\* the layer by layer construction ends in the model build_model returns
ModelStepsAgree ==
    pc = "returned" => model = build_model(data.X, data.Y, layers)

ConvLayers == IF model = None THEN <<>> ELSE GraphConvolutions(model.stack)

\* C8 as stated: with L >= 2 configured layers the model has L
\* graph-convolution layers, each as wide as its configured hidden_nodes, the
\* last one as wide as Y has columns; with fewer than 2 no layer is built.
C8_EveryWidthAsConfigured ==
    /\ pc = "returned" =>
         /\ Len(ConvLayers) = Len(layers)
         /\ \A k \in 1..Len(layers) : ConvLayers[k].output_dim = layers[k].hidden_nodes
         /\ ConvLayers[Len(layers)].output_dim = NumCols(data.Y)
    /\ Len(layers) < 2 => model = None

\* C8 amended: with L >= 2 configured layers the model has L graph-convolution
\* layers in configuration order; every layer but the last is as wide as its
\* configured hidden_nodes, the last is as wide as Y has columns whatever its
\* hidden_nodes; with fewer than 2 the build raises before any layer exists.
C8_HiddenWidthsAsConfigured ==
    /\ pc = "returned" =>
         /\ Len(layers) >= 2
         /\ Len(ConvLayers) = Len(layers)
         /\ \A k \in 1..(Len(layers) - 1) :
              ConvLayers[k].output_dim = layers[k].hidden_nodes
         /\ ConvLayers[Len(layers)].output_dim = NumCols(data.Y)
    /\ Len(ConvLayers) <= Len(layers)
    /\ Len(layers) < 2 =>
         /\ model = None
         /\ pc \in {"assert", "error"}
         /\ pc = "error" => error = "AssertionError"

C8_Witness ==
    /\ pc = "returned"
    /\ Len(layers) = MaxLayers
    /\ layers[Len(layers)].hidden_nodes # NumCols(data.Y)

\* C9: every graph-convolution layer of the built model, the output layer
\* included, has an L2 weight regularizer of its configured l2norm.
C9_EveryLayerRegularized ==
    pc = "returned" =>
        \A k \in 1..Len(layers) :
            /\ "W_regularizer" \in DOMAIN ConvLayers[k]
            /\ ConvLayers[k].W_regularizer = l2(layers[k].l2norm)

----------------------------------------------------------------------------
(* evaluate_preds on its own: the specification SpecEval *)

RECURSIVE Ascending(_)
Ascending(S) ==
    IF S = {} THEN <<>>
    ELSE LET m == CHOOSE x \in S : \A y \in S : x <= y
         IN  <<m>> \o Ascending(S \ {m})

\* the prediction matrices: row r is the base row rotated by r columns
PredMatrices ==
    {[r \in Rows |-> [c \in Cols |-> base[(c + r) % EvalCols]]] :
       base \in [Cols -> PredValues]}

\* the label matrices: any 0/1 matrix
LabelMatrices == [Rows -> [Cols -> {0, 1}]]

\* the index subsets: rows in any order, none twice
IndexSubsets == {idx \in SeqsUpTo(Rows, EvalRows) : NoDup(idx)}

\* the rows a subset leaves out, ascending
Complement(idx) == Ascending(Rows \ Range(idx))

InitEval ==
    /\ pc = "evaluate_preds"
    /\ \/ preds \in PredMatrices
       \/ preds = None
    /\ \E Y \in LabelMatrices, idx \in IndexSubsets :
         \* the test call has one split, the (train, val) call two
         \/ labels = <<Y>> /\ indices = <<idx>>
         \/ labels = <<Y, Y>> /\ indices = <<idx, Complement(idx)>>
    /\ result = None
    /\ atoms = <<>>
    /\ target_triples = <<>>
    /\ layers = <<>>
    /\ data = None
    /\ model = None
    /\ layer_i = 0
    /\ error = NoError
    /\ UnusedRun

\* lines 91-100, whole
Evaluate ==
    /\ pc = "evaluate_preds"
    /\ LET res == evaluate_preds(preds, labels, indices)
       IN  IF res.status = "ok"
           THEN /\ result' = res
                /\ pc' = "returned"
                /\ error' = error
           ELSE /\ result' = result
                /\ Raise(res.status)
    /\ UNCHANGED <<inputs, data, model, dataset, layer_i, epoch, nfit, Y_hat, log,
                   preds, labels, indices>>

NextEval == Evaluate

SpecEval == InitEval /\ [][NextEval]_vars

\* the first column holding the largest entry of a row
FirstMax(row) ==
    CHOOSE c \in DOMAIN row :
        /\ \A d \in DOMAIN row : row[d] <= row[c]
        /\ \A d \in DOMAIN row : d < c => row[d] < row[c]

\* C3: evaluate_preds returns one loss and one accuracy per (labels, indices)
\* pair, in input order, and for a non-empty subset the accuracy is the
\* fraction of the subset's rows whose prediction and label rows have their
\* first maximum in the same column.
C3_MaskedAccuracy ==
    pc = "returned" =>
        /\ Len(result.split_loss) = Len(indices)
        /\ Len(result.split_acc) = Len(indices)
        /\ \A k \in DOMAIN indices :
             indices[k] # <<>> =>
                 result.split_acc[k] =
                     [num |-> Cardinality({r \in Range(indices[k]) :
                                 FirstMax(preds[r]) = FirstMax(labels[k][r])}),
                      den |-> Cardinality(Range(indices[k]))]

C3_Witness ==
    /\ pc = "returned"
    /\ Len(indices) = 2
    /\ indices[1] # <<>> /\ indices[2] # <<>>
    /\ result.split_acc[1].num = 0
    /\ result.split_acc[2].num = result.split_acc[2].den

\* the sum of -log(p) over a set of (row, column) positions of p
RECURSIVE SumNegLog(_, _)
SumNegLog(pos, p) ==
    IF pos = {} THEN 0
    ELSE LET x == CHOOSE y \in pos : TRUE
         IN  NegLog(p[x[1]][x[2]]) + SumNegLog(pos \ {x}, p)

\* the positions of the subset's rows that hold a label
LabelPositions(Y, idx) == {x \in Range(idx) \X Cols : Y[x[1]][x[2]] # 0}

\* the rows of the subset that hold a label
LabeledRows(Y, idx) == {r \in Range(idx) : \E c \in Cols : Y[r][c] # 0}

C5_EmptySubsetFailsFast ==
    (/\ pc # "evaluate_preds"
     /\ \E k \in DOMAIN indices : LabeledRows(labels[k], indices[k]) = {}) =>
        pc = "error"

====
